---- MODULE Spec2Model ----
(***************************************************************************)
(* The perceptron demo: the JavaScript Perceptron class (perceptron.js,    *)
(* kept at the end of src/README.md), and the React front end              *)
(* (src/frontend/src/App.jsx) talking to the state-holding HTTP backend.   *)
(*                                                                         *)
(* Numbers are integers: the dot product is linear, and the spec accepts   *)
(* floating-point rounding differences, so rounding is not modelled.       *)
(* JavaScript values are tagged records [t, v]; strings are sequences of   *)
(* one-character strings so that conversions can be computed.              *)
(***************************************************************************)
EXTENDS Integers, Sequences, FiniteSets, TLC

\* The number of switches and of weights: new Array(16), length !== 16, i < 16.
N == 16

\* ---------------------------------------------------------------- bounds
\* Rejected vectors have a length within MaxOff of N.
MaxOff == 1
\* At most MaxPending POST /reset requests of the front end are in flight.
MaxPending == 1

\* ------------------------------------------------------- JavaScript values
Num(n) == [t |-> "number", v |-> n]
NaN == [t |-> "NaN", v |-> 0]
Str(s) == [t |-> "string", v |-> s]
Arr(a) == [t |-> "array", v |-> a]
NULL == [t |-> "null", v |-> 0]
UNDEFINED == [t |-> "undefined", v |-> 0]

Range(s) == {s[i] : i \in DOMAIN s}

Digits == <<"0", "1", "2", "3", "4", "5", "6", "7", "8", "9">>

DigitValue(c) == (CHOOSE d \in DOMAIN Digits : Digits[d] = c) - 1

RECURSIVE DecimalValue(_)
DecimalValue(s) ==
    IF s = <<>> THEN 0
    ELSE 10 * DecimalValue(SubSeq(s, 1, Len(s) - 1)) + DigitValue(s[Len(s)])

\* ToNumber on a string: the empty string is 0, a run of decimal digits is its
\* value, anything else is NaN (signs, fractions and exponents are not drawn).
StringToNumber(s) ==
    IF \A i \in DOMAIN s : s[i] \in Range(Digits) THEN Num(DecimalValue(s)) ELSE NaN

\* Number(x), which is also the conversion the * operator applies to its operands.
ToNumber(x) ==
    CASE x.t = "number" -> x
      [] x.t = "NaN" -> NaN
      [] x.t = "string" -> StringToNumber(x.v)
      [] x.t = "null" -> Num(0)
      [] OTHER -> NaN

\* a * b
jsMul(a, b) ==
    LET x == ToNumber(a)
        y == ToNumber(b)
    IN IF x.t = "NaN" \/ y.t = "NaN" THEN NaN ELSE Num(x.v * y.v)

\* a + b for two numbers (output and this.bias are numbers where the code adds).
jsAdd(a, b) ==
    IF a.t = "NaN" \/ b.t = "NaN" THEN NaN ELSE Num(a.v + b.v)

\* ------------------------------------------------------------ perceptron.js
WeightsMessage ==
    <<"W", "e", "i", "g", "h", "t", "s", " ", "m", "u", "s", "t", " ", "b", "e",
      " ", "a", "n", " ", "a", "r", "r", "a", "y", " ", "o", "f", " ", "e", "x",
      "a", "c", "t", "l", "y", " ", "1", "6", " ", "v", "a", "l", "u", "e", "s">>

InputMessage ==
    <<"I", "n", "p", "u", "t", " ", "m", "u", "s", "t", " ", "b", "e",
      " ", "a", "n", " ", "a", "r", "r", "a", "y", " ", "o", "f", " ", "e", "x",
      "a", "c", "t", "l", "y", " ", "1", "6", " ", "v", "a", "l", "u", "e", "s">>

\* new Error(message)
Error(message) == [name |-> "Error", message |-> message]

NoError == [name |-> "none", message |-> <<>>]
NoObject == [weights |-> <<>>, bias |-> UNDEFINED]

\* new Array(16).fill(x)
Fill(x) == [i \in 1..N |-> x]

\* [...weights]
Spread(a) == [i \in 1..Len(a) |-> a[i]]

\* The constructor with the length test of a slip: only short arrays are refused.
PerceptronAcceptsLong(weights, bias) ==
    LET w == IF weights.t = "undefined" THEN NULL ELSE weights
        b == IF bias.t = "undefined" THEN Num(0) ELSE bias
    IN IF w.t = "null"
       THEN [status |-> "ok", error |-> NoError,
             this |-> [weights |-> Fill(Num(0)), bias |-> ToNumber(b)]]
       ELSE IF Len(w.v) < N
       THEN [status |-> "throw", error |-> Error(WeightsMessage), this |-> NoObject]
       ELSE [status |-> "ok", error |-> NoError,
             this |-> [weights |-> Spread(w.v), bias |-> ToNumber(b)]]

\* The constructor keeping the default zeros whatever weights are given.
PerceptronDropsWeights(weights, bias) ==
    LET w == IF weights.t = "undefined" THEN NULL ELSE weights
        b == IF bias.t = "undefined" THEN Num(0) ELSE bias
    IN IF w.t = "null" \/ Len(w.v) = N
       THEN [status |-> "ok", error |-> NoError,
             this |-> [weights |-> Fill(Num(0)), bias |-> ToNumber(b)]]
       ELSE [status |-> "throw", error |-> Error(WeightsMessage), this |-> NoObject]

\* constructor(weights = null, bias = 0.0): the outcome of new Perceptron(...).
Perceptron(weights, bias) ==
    LET w == IF weights.t = "undefined" THEN NULL ELSE weights
        b == IF bias.t = "undefined" THEN Num(0) ELSE bias
    IN IF w.t = "null"
       THEN [status |-> "ok", error |-> NoError,
             this |-> [weights |-> Fill(Num(0)), bias |-> ToNumber(b)]]
       ELSE IF Len(w.v) # N
       THEN [status |-> "throw", error |-> Error(WeightsMessage), this |-> NoObject]
       ELSE [status |-> "ok", error |-> NoError,
             this |-> [weights |-> Spread(w.v), bias |-> ToNumber(b)]]

\* The loop stopping one switch early (i < 15).
RECURSIVE SumLoopSkipsLast(_, _, _, _)
SumLoopSkipsLast(i, output, inputs, weights) ==
    IF i < N - 1
    THEN SumLoopSkipsLast(i + 1, jsAdd(output, jsMul(inputs[i + 1], weights[i + 1])),
                          inputs, weights)
    ELSE output

\* for (let i = 0; i < 16; i++) output += inputs[i] * this.weights[i]
RECURSIVE SumLoop(_, _, _, _)
SumLoop(i, output, inputs, weights) ==
    IF i < N
    THEN SumLoop(i + 1, jsAdd(output, jsMul(inputs[i + 1], weights[i + 1])), inputs, weights)
    ELSE output

\* calculateOutput with the length test of a slip: only short arrays are refused.
calculateOutputAcceptsLong(this, inputs) ==
    IF Len(inputs) < N
    THEN [status |-> "throw", error |-> Error(InputMessage), value |-> UNDEFINED,
          iterations |-> 0, this |-> this, inputs |-> inputs]
    ELSE [status |-> "ok", error |-> NoError,
          value |-> jsAdd(SumLoop(0, Num(0), inputs, this.weights), this.bias),
          iterations |-> N, this |-> this, inputs |-> inputs]

\* calculateOutput forgetting the bias.
calculateOutputNoBias(this, inputs) ==
    IF Len(inputs) # N
    THEN [status |-> "throw", error |-> Error(InputMessage), value |-> UNDEFINED,
          iterations |-> 0, this |-> this, inputs |-> inputs]
    ELSE [status |-> "ok", error |-> NoError,
          value |-> SumLoop(0, Num(0), inputs, this.weights),
          iterations |-> N, this |-> this, inputs |-> inputs]

\* calculateOutput keeping the running sum in this.bias.
calculateOutputAccumulates(this, inputs) ==
    IF Len(inputs) # N
    THEN [status |-> "throw", error |-> Error(InputMessage), value |-> UNDEFINED,
          iterations |-> 0, this |-> this, inputs |-> inputs]
    ELSE LET out == jsAdd(SumLoop(0, Num(0), inputs, this.weights), this.bias)
         IN [status |-> "ok", error |-> NoError, value |-> out,
             iterations |-> N, this |-> [this EXCEPT !.bias = out], inputs |-> inputs]

\* calculateOutput(inputs): what it returns or throws, how many loop iterations
\* ran, and the receiver and the caller's array as the call leaves them.
calculateOutput(this, inputs) ==
    IF Len(inputs) # N
    THEN [status |-> "throw", error |-> Error(InputMessage), value |-> UNDEFINED,
          iterations |-> 0, this |-> this, inputs |-> inputs]
    ELSE [status |-> "ok", error |-> NoError,
          value |-> jsAdd(SumLoop(0, Num(0), inputs, this.weights), this.bias),
          iterations |-> N, this |-> this, inputs |-> inputs]

\* ------------------------------------------------------------------- state
VARIABLES
    mode,           \* which program runs: "script" (perceptron.js) or "ui" (App.jsx)
    perceptron,     \* script: the Perceptron object held, NoObject before the first
    callerInputs,   \* script: the caller's input array
    ret,            \* script: the last call, its arguments and its outcome
    memo,           \* script: one earlier calculateOutput call on this object, and
                    \*         whether a call on other inputs has followed it
    inputs,         \* ui: useState(Array(16).fill(-1))
    weights,        \* ui: useState(Array(16).fill(0))
    bias,           \* ui: useState(0)
    output,         \* ui: useState(0)
    isCalculating,  \* ui: useState(false)
    stateFetch,     \* ui: the GET /state request of the mount effect
    calcFetch,      \* ui: the POST /calculate request in flight, if any, and
                    \*     whether Reset All was clicked while it was in flight
    resetSent,      \* ui: POST /reset requests the server has not handled yet
    resetServed,    \* ui: POST /reset responses the front end has not received yet
    afterReset,     \* ui: a Reset All completed, Calculate was not clicked since,
                    \*     and no calculate request was sent after the Reset All click
    srvWeights,     \* backend: the weights the state holder keeps
    srvBias         \* backend: the bias the state holder keeps

scriptVars == <<perceptron, callerInputs, ret, memo>>
uiVars == <<inputs, weights, bias, output, isCalculating>>
netVars == <<stateFetch, calcFetch, resetSent, resetServed>>
srvVars == <<srvWeights, srvBias>>
appVars == <<uiVars, netVars, afterReset, srvVars>>
vars == <<mode, scriptVars, appVars>>

NoCall ==
    [op |-> "none", weights |-> UNDEFINED, bias |-> UNDEFINED, inputs |-> <<>>,
     status |-> "none", value |-> UNDEFINED, error |-> NoError, iterations |-> 0]

NoMemo == [call |-> NoCall, between |-> FALSE]

\* ----------------------------------------------------- the script's inputs
allUp == Fill(Num(1))
allDown == Fill(Num(-1))

\* tPattern of the sample run
tPattern ==
    <<Num(1), Num(1), Num(1), Num(1), Num(-1), Num(1), Num(1), Num(-1),
      Num(-1), Num(1), Num(1), Num(-1), Num(-1), Num(-1), Num(-1), Num(-1)>>

\* new Array(16).fill(10) of the usage example
allTen == Fill(Num(10))

\* sampleWeights of the sample run, in tenths (0.5 is 5), with sampleBias -2.0 as -20
sampleWeights ==
    <<Num(5), Num(5), Num(5), Num(5), Num(2), Num(10), Num(10), Num(2),
      Num(2), Num(10), Num(10), Num(2), Num(2), Num(2), Num(2), Num(2)>>
sampleBias == Num(-20)

\* An array of n elements: a cut short, or continued with x.
Resize(a, n, x) == [i \in 1..n |-> IF i <= Len(a) THEN a[i] ELSE x]

WrongLengths == {n \in (N - MaxOff)..(N + MaxOff) : n # N}

abc == Str(<<"a", "b", "c">>)
seven == Str(<<"7">>)

WeightChoices ==
    {UNDEFINED, NULL, Arr(allTen), Arr(sampleWeights), Arr([allTen EXCEPT ![2] = abc])}
        \cup {Arr(Resize(allTen, n, Num(10))) : n \in WrongLengths}

BiasChoices == {UNDEFINED, sampleBias, abc, seven}

InputChoices ==
    {allUp, allDown, tPattern, [allUp EXCEPT ![16] = abc], [allDown EXCEPT ![1] = seven]}
        \cup {Resize(allUp, n, Num(1)) : n \in WrongLengths}

\* ------------------------------------------------------ the script's steps
\* const perceptron = new Perceptron(w, b): a throw leaves the variable as it was.
New(w, b) ==
    \E r \in {Perceptron(w, b)} :
        /\ mode = "script"
        /\ perceptron' = IF r.status = "ok" THEN r.this ELSE perceptron
        /\ memo' = IF r.status = "ok" THEN NoMemo ELSE memo
        /\ ret' = [NoCall EXCEPT !.op = "new", !.weights = w, !.bias = b,
                                 !.status = r.status, !.error = r.error]
        /\ UNCHANGED <<mode, callerInputs, appVars>>

\* The caller builds its input array.
Prepare(in) ==
    /\ mode = "script"
    /\ callerInputs' = in
    /\ UNCHANGED <<mode, perceptron, ret, memo, appVars>>

\* perceptron.calculateOutput(callerInputs); the call may be the one remembered.
Calculate ==
    /\ mode = "script"
    /\ perceptron # NoObject
    /\ UNCHANGED <<mode, appVars>>
    /\ \E r \in {calculateOutput(perceptron, callerInputs)} :
           \E call \in {[NoCall EXCEPT !.op = "calc", !.inputs = callerInputs,
                                       !.status = r.status, !.value = r.value,
                                       !.error = r.error, !.iterations = r.iterations]} :
               /\ perceptron' = r.this
               /\ callerInputs' = r.inputs
               /\ ret' = call
               /\ memo' \in {[call |-> call, between |-> FALSE],
                            IF memo.call.op = "calc" /\ memo.call.inputs # callerInputs
                            THEN [memo EXCEPT !.between = TRUE] ELSE memo}

\* ------------------------------------------------------------ the backend
\* The state holder and the endpoints, as spec.md sections 4.1 to 4.3 give them.
Zeros == [i \in 1..N |-> 0]

RECURSIVE Dot(_, _, _)
Dot(x, w, n) == IF n = 0 THEN 0 ELSE Dot(x, w, n - 1) + x[n] * w[n]

\* POST /calculate: 422 unless both vectors have 16 elements.
calculate(in, w, b) ==
    IF Len(in) # N \/ Len(w) # N
    THEN [status |-> 422, output |-> UNDEFINED]
    ELSE [status |-> 200, output |-> Dot(in, w, N) + b]

\* An API client (curl) posts to /weights: a vector of another length is refused
\* with a 422 and the stored vector stays.
ClientSetWeights(w) ==
    /\ mode = "ui"
    /\ srvWeights' = IF Len(w) = N THEN w ELSE srvWeights
    /\ UNCHANGED <<mode, scriptVars, uiVars, netVars, afterReset, srvBias>>

\* An API client posts to /bias.
ClientSetBias(b) ==
    /\ mode = "ui"
    /\ srvBias' = b
    /\ UNCHANGED <<mode, scriptVars, uiVars, netVars, afterReset, srvWeights>>

\* The server handles the front end's GET /state.
ServeState ==
    /\ mode = "ui"
    /\ stateFetch.st = "sent"
    /\ stateFetch' = [st |-> "served", weights |-> srvWeights, bias |-> srvBias]
    /\ UNCHANGED <<mode, scriptVars, uiVars, calcFetch, resetSent, resetServed,
                   afterReset, srvVars>>

\* The server handles a POST /reset of the front end.
ServeReset ==
    /\ mode = "ui"
    /\ resetSent > 0
    /\ resetSent' = resetSent - 1
    /\ resetServed' = resetServed + 1
    /\ srvWeights' = Zeros
    /\ srvBias' = 0
    /\ UNCHANGED <<mode, scriptVars, uiVars, stateFetch, calcFetch, afterReset>>

\* ------------------------------------------------------------------ App.jsx
KnobMin == -10
KnobMax == 10

\* The angles, in degrees, a knob is dragged by between mouse down and mouse move.
DragAngles == {-135, 135}
BiasDragAngles == {135}
\* The switches and the weight knobs the user touches.
Switches == {1}
Knobs == {1}

\* handleMouseMove: Math.round(clamp(startValue + (deltaAngle / 270) * (max - min))),
\* computed on numerators over 270; Math.round(x) is floor(x + 1/2).
knobValue(startValue, deltaAngle) ==
    LET newValue == startValue * 270 + deltaAngle * (KnobMax - KnobMin)
        clampedValue ==
            IF newValue > KnobMax * 270 THEN KnobMax * 270
            ELSE IF newValue < KnobMin * 270 THEN KnobMin * 270 ELSE newValue
    IN (2 * clampedValue + 270) \div 540

NoFetch == [st |-> "none", inputs |-> <<>>, weights |-> <<>>, bias |-> 0, atReset |-> FALSE]

\* .then(data => { setWeights(data.weights); setBias(data.bias) })
LoadState ==
    /\ mode = "ui"
    /\ stateFetch.st = "served"
    /\ weights' = stateFetch.weights
    /\ bias' = stateFetch.bias
    /\ stateFetch' = [st |-> "done", weights |-> <<>>, bias |-> 0]
    /\ UNCHANGED <<mode, scriptVars, inputs, output, isCalculating, calcFetch,
                   resetSent, resetServed, afterReset, srvVars>>

\* .catch(err => console.error('Failed to load state:', err))
LoadStateFailed ==
    /\ mode = "ui"
    /\ stateFetch.st = "sent"
    /\ stateFetch' = [st |-> "done", weights |-> <<>>, bias |-> 0]
    /\ UNCHANGED <<mode, scriptVars, uiVars, calcFetch, resetSent, resetServed,
                   afterReset, srvVars>>

toggleInput(index) ==
    /\ mode = "ui"
    /\ inputs' = [inputs EXCEPT ![index] = IF inputs[index] = 1 THEN -1 ELSE 1]
    /\ UNCHANGED <<mode, scriptVars, weights, bias, output, isCalculating, netVars,
                   afterReset, srvVars>>

\* A weight knob is dragged: onChange calls updateWeight(index, value).
updateWeight(index, deltaAngle) ==
    /\ mode = "ui"
    /\ weights' = [weights EXCEPT ![index] = knobValue(weights[index], deltaAngle)]
    /\ UNCHANGED <<mode, scriptVars, inputs, bias, output, isCalculating, netVars,
                   afterReset, srvVars>>

\* The bias knob is dragged: onChange is setBias.
updateBias(deltaAngle) ==
    /\ mode = "ui"
    /\ bias' = knobValue(bias, deltaAngle)
    /\ UNCHANGED <<mode, scriptVars, inputs, weights, output, isCalculating, netVars,
                   afterReset, srvVars>>

\* calculate, to the await: the button is disabled while isCalculating.
CalculateClick ==
    /\ mode = "ui"
    /\ ~isCalculating
    /\ isCalculating' = TRUE
    /\ calcFetch' = [st |-> "sent", inputs |-> inputs, weights |-> weights, bias |-> bias,
                     atReset |-> FALSE]
    /\ afterReset' = FALSE
    /\ UNCHANGED <<mode, scriptVars, inputs, weights, bias, output, stateFetch,
                   resetSent, resetServed, srvVars>>

\* calculate, after the await: setOutput(data.output), finally setIsCalculating(false).
CalculateResolved ==
    /\ mode = "ui"
    /\ calcFetch.st = "sent"
    /\ output' = calculate(calcFetch.inputs, calcFetch.weights, calcFetch.bias).output
    /\ isCalculating' = FALSE
    /\ calcFetch' = NoFetch
    /\ UNCHANGED <<mode, scriptVars, inputs, weights, bias, stateFetch,
                   resetSent, resetServed, afterReset, srvVars>>

\* calculate, the fetch failing: catch logs, finally setIsCalculating(false).
CalculateRejected ==
    /\ mode = "ui"
    /\ calcFetch.st = "sent"
    /\ isCalculating' = FALSE
    /\ calcFetch' = NoFetch
    /\ UNCHANGED <<mode, scriptVars, inputs, weights, bias, output, stateFetch,
                   resetSent, resetServed, afterReset, srvVars>>

\* reset, to the await.
ResetClick ==
    /\ mode = "ui"
    /\ resetSent + resetServed < MaxPending
    /\ resetSent' = resetSent + 1
    /\ calcFetch' = IF calcFetch.st = "sent" THEN [calcFetch EXCEPT !.atReset = TRUE]
                    ELSE calcFetch
    /\ UNCHANGED <<mode, scriptVars, uiVars, stateFetch, resetServed,
                   afterReset, srvVars>>

\* reset, after the await, leaving the bias as it is.
ResetResolvedKeepsBias ==
    /\ mode = "ui"
    /\ resetServed > 0
    /\ resetServed' = resetServed - 1
    /\ inputs' = [i \in 1..N |-> -1]
    /\ weights' = [i \in 1..N |-> 0]
    /\ output' = 0
    /\ afterReset' = (calcFetch.st = "sent" => calcFetch.atReset)
    /\ UNCHANGED <<mode, scriptVars, bias, isCalculating, stateFetch, calcFetch,
                   resetSent, srvVars>>

\* reset, after the await: the four setters.
ResetResolved ==
    /\ mode = "ui"
    /\ resetServed > 0
    /\ resetServed' = resetServed - 1
    /\ inputs' = [i \in 1..N |-> -1]
    /\ weights' = [i \in 1..N |-> 0]
    /\ bias' = 0
    /\ output' = 0
    /\ afterReset' = (calcFetch.st = "sent" => calcFetch.atReset)
    /\ UNCHANGED <<mode, scriptVars, isCalculating, stateFetch, calcFetch,
                   resetSent, srvVars>>

\* reset, the fetch failing: catch logs and nothing is set.
ResetRejected ==
    /\ mode = "ui"
    /\ resetSent > 0
    /\ resetSent' = resetSent - 1
    /\ UNCHANGED <<mode, scriptVars, uiVars, stateFetch, calcFetch, resetServed,
                   afterReset, srvVars>>

\* ----------------------------------------------------------- specification
ClientWeights == {[i \in 1..N |-> 10]} \cup {[i \in 1..n |-> 10] : n \in WrongLengths}
ClientBiases == {10}

\* App's useState initial values, the mount effect's request sent, and the
\* state holder's defaults.
InitUI ==
    /\ inputs = [i \in 1..N |-> -1]
    /\ weights = [i \in 1..N |-> 0]
    /\ bias = 0
    /\ output = 0
    /\ isCalculating = FALSE
    /\ stateFetch = [st |-> "sent", weights |-> <<>>, bias |-> 0]
    /\ calcFetch = NoFetch
    /\ resetSent = 0
    /\ resetServed = 0
    /\ afterReset = FALSE
    /\ srvWeights = Zeros
    /\ srvBias = 0

\* The script before its first statement.
InitScript ==
    /\ perceptron = NoObject
    /\ callerInputs = <<>>
    /\ ret = NoCall
    /\ memo = NoMemo

Init ==
    /\ mode \in {"script", "ui"}
    /\ InitScript
    /\ InitUI

NextScript ==
    \/ \E w \in WeightChoices, b \in BiasChoices : New(w, b)
    \/ \E in \in InputChoices : Prepare(in)
    \/ Calculate

NextUI ==
    \/ \E w \in ClientWeights : ClientSetWeights(w)
    \/ \E b \in ClientBiases : ClientSetBias(b)
    \/ ServeState
    \/ ServeReset
    \/ LoadState
    \/ LoadStateFailed
    \/ \E index \in Switches : toggleInput(index)
    \/ \E index \in Knobs, a \in DragAngles : updateWeight(index, a)
    \/ \E a \in BiasDragAngles : updateBias(a)
    \/ CalculateClick
    \/ CalculateResolved
    \/ CalculateRejected
    \/ ResetClick
    \/ ResetResolved
    \/ ResetRejected

Next == NextScript \/ NextUI

\* Either program, from its start.
Spec == Init /\ [][Next]_vars

\* node perceptron.js: the class and its callers.
InitPerceptronJs == Init /\ mode = "script"
SpecScript == InitPerceptronJs /\ [][NextScript]_vars

\* The front end with its backend.
InitApp == Init /\ mode = "ui"
SpecUI == InitApp /\ [][NextUI]_vars

\* calculateOutput as a function: every vector of switches, on the usage
\* example's perceptron, the sample run's, and one whose weights are told apart
\* by every sum (powers of two).
distinctWeights == [i \in 1..N |-> Num(2 ^ (i - 1))]

CalcPerceptrons ==
    {Perceptron(Arr(allTen), Num(0)).this,
     Perceptron(Arr(sampleWeights), sampleBias).this,
     Perceptron(Arr(distinctWeights), Num(-1)).this}

InitCalc ==
    /\ mode = "script"
    /\ InitUI
    /\ ret = NoCall
    /\ memo = NoMemo
    /\ perceptron \in CalcPerceptrons
    /\ callerInputs \in [1..N -> {Num(1), Num(-1)}]

SpecCalc == InitCalc /\ [][Calculate]_vars

\* ------------------------------------------------------------------ claims
RECURSIVE SumOver(_, _)
SumOver(f, S) ==
    IF S = {} THEN 0
    ELSE LET i == CHOOSE j \in S : TRUE IN f[i] + SumOver(f, S \ {i})

IsNumber(x) == x.t = "number"
AllNumbers(a) == \A i \in DOMAIN a : IsNumber(a[i])
IsSwitchVector(a) == Len(a) = N /\ \A i \in 1..N : a[i] \in {Num(1), Num(-1)}

\* The reference: the bias plus the sum, over the index set, of the products.
ReferenceOutput(in, w, b) == b.v + SumOver([i \in 1..N |-> in[i].v * w[i].v], 1..N)

\* The last call was a calculateOutput on switches, with numeric weights and bias.
CalculatedOnSwitches ==
    /\ ret.op = "calc"
    /\ IsSwitchVector(ret.inputs)
    /\ AllNumbers(perceptron.weights)
    /\ IsNumber(perceptron.bias)

\* C1: on a 16-element vector of +1/-1 with numeric weights and bias,
\* calculateOutput returns the reference dot product plus the bias.
C1_CalculateIsDotProductPlusBias ==
    CalculatedOnSwitches =>
        /\ ret.status = "ok"
        /\ ret.value = Num(ReferenceOutput(ret.inputs, perceptron.weights, perceptron.bias))

\* The T pattern on the sample perceptron reads 2.4 (24 tenths).
C1_Witness ==
    /\ CalculatedOnSwitches
    /\ ret.inputs = tPattern
    /\ perceptron.weights = sampleWeights
    /\ perceptron.bias = sampleBias
    /\ ret.value = Num(24)

Up(in) == {i \in 1..N : in[i] = Num(1)}
Down(in) == {i \in 1..N : in[i] = Num(-1)}
WeightValues(w) == [i \in 1..N |-> w[i].v]

\* C9: the output is the sum of the weights of the switches that are up, minus
\* the sum of the weights of those that are down, plus the bias; with all weights
\* 10 and bias 0, all up reads 160 and all down reads -160.
C9_UpMinusDownPlusBias ==
    CalculatedOnSwitches =>
        /\ ret.value = Num(SumOver(WeightValues(perceptron.weights), Up(ret.inputs))
                           - SumOver(WeightValues(perceptron.weights), Down(ret.inputs))
                           + perceptron.bias.v)
        /\ (perceptron.weights = allTen /\ perceptron.bias = Num(0) /\ ret.inputs = allUp)
               => ret.value = Num(160)
        /\ (perceptron.weights = allTen /\ perceptron.bias = Num(0) /\ ret.inputs = allDown)
               => ret.value = Num(-160)

\* All switches up on the usage example's perceptron: 160.
C9_Witness ==
    /\ CalculatedOnSwitches
    /\ perceptron.weights = allTen
    /\ perceptron.bias = Num(0)
    /\ ret.inputs = allUp
    /\ ret.value = Num(160)

\* C2: calculateOutput on an array of another length than 16 (15 or 17) throws:
\* no value is returned, no loop iteration runs, and the stored weights and bias
\* stay as they were.
C2_WrongLengthInputsRejected ==
    [][(ret'.op = "calc" /\ Len(callerInputs) # N /\ Calculate) =>
           /\ ret'.status = "throw"
           /\ ret'.value = UNDEFINED
           /\ ret'.iterations = 0
           /\ perceptron' = perceptron]_vars

\* A 17-element array was refused by a perceptron holding the sample weights.
C2_Witness ==
    /\ ret.op = "calc"
    /\ Len(ret.inputs) = N + 1
    /\ ret.status = "throw"
    /\ perceptron.weights = sampleWeights

\* A value that is not a number was supplied: as the bias, as a weight, as a switch.
NonNumberSupplied ==
    \/ /\ ret.op = "new"
       /\ \/ ret.bias.t \notin {"number", "undefined"}
          \/ ret.weights.t = "array" /\ ~AllNumbers(ret.weights.v)
    \/ /\ ret.op = "calc"
       /\ ~AllNumbers(ret.inputs)

\* C4: a value that is not a number, supplied as an element of the inputs or of
\* the weights or as the bias, is rejected with an error by the constructor or by
\* calculateOutput.
C4_NonNumbersRejected == NonNumberSupplied => ret.status = "throw"

\* The decimal numeral of n >= 0, as its characters.
RECURSIVE Decimal(_)
Decimal(n) ==
    IF n < 10 THEN <<Digits[n + 1]>>
    ELSE Decimal(n \div 10) \o <<Digits[(n % 10) + 1]>>

\* The text s contains the text sub.
Includes(s, sub) ==
    \E k \in 0..(Len(s) - Len(sub)) : SubSeq(s, k + 1, k + Len(sub)) = sub

WeightsWord == <<"W", "e", "i", "g", "h", "t", "s">>
InputWord == <<"I", "n", "p", "u", "t">>

\* C5: the error of a rejected vector names the vector (weights or inputs) and
\* carries the length the vector had.
C5_ErrorCarriesVectorAndLength ==
    ret.status = "throw" =>
        /\ ret.op = "new" =>
               /\ Includes(ret.error.message, WeightsWord)
               /\ Includes(ret.error.message, Decimal(Len(ret.weights.v)))
        /\ ret.op = "calc" =>
               /\ Includes(ret.error.message, InputWord)
               /\ Includes(ret.error.message, Decimal(Len(ret.inputs)))

\* C6: a calculateOutput call, returning or throwing, leaves the perceptron and
\* the caller's array as they were, and a call on the inputs of a remembered
\* earlier call on the same perceptron has the outcome that call had.
C6_CalculateIsPure ==
    /\ [][(ret'.op = "calc" /\ Calculate) =>
              /\ perceptron' = perceptron
              /\ callerInputs' = callerInputs]_vars
    /\ []((ret.op = "calc" /\ memo.call.op = "calc" /\ ret.inputs = memo.call.inputs)
              => ret = memo.call)

\* The remembered call was repeated after a call on other inputs.
C6_Witness ==
    /\ ret.op = "calc"
    /\ ret.status = "ok"
    /\ memo.call.op = "calc"
    /\ memo.between
    /\ ret.inputs = memo.call.inputs
    /\ ret.inputs = tPattern

\* C7: a Perceptron constructed with a 16-element array w is built, and holds 16
\* weights equal to w element by element.
C7_ConstructorKeepsWeights ==
    (ret.op = "new" /\ ret.weights.t = "array" /\ Len(ret.weights.v) = N) =>
        /\ ret.status = "ok"
        /\ Len(perceptron.weights) = N
        /\ \A i \in 1..N : perceptron.weights[i] = ret.weights.v[i]

\* The sample weights were given and are held.
C7_Witness ==
    /\ ret.op = "new"
    /\ ret.status = "ok"
    /\ ret.weights = Arr(sampleWeights)
    /\ perceptron.weights = sampleWeights

\* The vectors held: the front end's two, the state holder's, those in flight,
\* and the perceptron's.
HeldVectorsHaveLengthN ==
    /\ Len(inputs) = N
    /\ Len(weights) = N
    /\ Len(srvWeights) = N
    /\ stateFetch.st = "served" => Len(stateFetch.weights) = N
    /\ calcFetch.st = "sent" => Len(calcFetch.inputs) = N /\ Len(calcFetch.weights) = N
    /\ perceptron # NoObject => Len(perceptron.weights) = N
    /\ (ret.op = "calc" /\ ret.status = "ok") => Len(ret.inputs) = N

\* A vector of another length was handed to the constructor or to calculateOutput.
WrongLengthSupplied ==
    \/ ret.op = "new" /\ ret.weights.t = "array" /\ Len(ret.weights.v) # N
    \/ ret.op = "calc" /\ Len(ret.inputs) # N

\* C3: in every state the weight vectors and the input vector held have exactly
\* 16 elements; a vector of another length is refused with an error, and the
\* refusal leaves what was held as it was.
C3_VectorsKeepLengthN ==
    /\ [](HeldVectorsHaveLengthN /\ (WrongLengthSupplied => ret.status = "throw"))
    /\ [][(ret'.status = "throw" /\ ret' # ret) => perceptron' = perceptron]_vars

\* The front end loaded the state an API client had set, and the user then
\* turned a knob and flipped a switch.
C3_Witness ==
    /\ mode = "ui"
    /\ stateFetch.st = "done"
    /\ weights = [[i \in 1..N |-> 10] EXCEPT ![1] = -10]
    /\ inputs = [[i \in 1..N |-> -1] EXCEPT ![1] = 1]

DefaultPerceptron == Perceptron(UNDEFINED, UNDEFINED).this

\* C8, as first stated: every Reset All, when its handler ends, leaves the weights
\* all 0 and the bias 0.
C8_EveryResetAllZeroes ==
    [][(ResetResolved \/ ResetRejected) =>
           /\ weights' = [i \in 1..N |-> 0]
           /\ bias' = 0]_vars

\* C8: reset yields 16 zero weights and bias 0 whatever they were, the state of
\* a perceptron created with no arguments: in the state holder when it handles
\* the request, and in the front end when a Reset All's request is answered; a
\* Reset All whose request fails leaves the weights and the bias as they were.
C8_ResetYieldsDefaults ==
    /\ [][ResetResolved =>
              /\ weights' = [i \in 1..N |-> 0]
              /\ bias' = 0
              /\ weights' = WeightValues(DefaultPerceptron.weights)
              /\ bias' = DefaultPerceptron.bias.v]_vars
    /\ [][ResetRejected => UNCHANGED <<weights, bias>>]_vars
    /\ [][ServeReset => (srvWeights' = [i \in 1..N |-> 0] /\ srvBias' = 0)]_vars
    /\ []((ret.op = "new" /\ ret.weights.t \in {"undefined", "null"}
             /\ ret.bias.t = "undefined")
              => perceptron = [weights |-> Fill(Num(0)), bias |-> Num(0)])

\* A Reset All came back while a calculate request sent with a turned knob and a
\* turned bias was still in flight.
C8_Witness ==
    /\ afterReset
    /\ weights = [i \in 1..N |-> 0]
    /\ bias = 0
    /\ inputs = [i \in 1..N |-> -1]
    /\ calcFetch.st = "sent"
    /\ calcFetch.weights[1] = 10
    /\ calcFetch.bias = 10

\* C10: after a Reset All has completed, the output shown stays 0 until the user
\* clicks Calculate again, whenever the response to a calculate request that was
\* in flight at the Reset All click arrives.
C10_OutputStaysZeroAfterReset == afterReset => output = 0

\* A weight or the bias that is not 0 while the response to GET /state is still
\* awaited was set by a knob: useState starts them at 0 and Reset All puts 0.
\* A step changes such a value.
UserValueChanges ==
    \/ \E k \in 1..N : weights[k] # 0 /\ weights'[k] # weights[k]
    \/ bias # 0 /\ bias' # bias

\* C11: a weight or a bias the user has set with a knob changes again only by a
\* later knob change or by a Reset All; the response to the initial GET /state
\* request, whenever it arrives, does not overwrite it.
C11_UserValuesSurviveStateLoad ==
    [][UserValueChanges =>
           \/ \E index \in Knobs, a \in DragAngles : updateWeight(index, a)
           \/ \E a \in BiasDragAngles : updateBias(a)
           \/ ResetResolved]_vars

====
